---- MODULE Spec2Model ----
(***************************************************************************)
(* A model of pyDNAbinding/binding_model.py: the convolutional scorer,     *)
(* the binding model hierarchy (convolutional, PWM, energetic) with its    *)
(* conversions and persistence, the delta-delta-G array helpers and the    *)
(* chemical potential solver.                                              *)
(*                                                                         *)
(* Numbers.  Array entries are integers.  Energies and filter weights are  *)
(* taken from values float32 represents exactly.  Probabilities are fixed  *)
(* point in units of 1e-7 (ProbOne is 1.0), so that rounding a row sum to  *)
(* six decimals is rounding to a multiple of 10 units.                     *)
(*                                                                         *)
(* Arrays.  numpy arrays are buffers in `heap`; an object's array field    *)
(* holds the name of its buffer, so that two fields naming one buffer      *)
(* alias and an in-place operation on one is seen through the other.       *)
(***************************************************************************)
EXTENDS Integers, Sequences, FiniteSets, TLC

VARIABLES
    heap,     \* buffer name -> array contents
    model,    \* the binding model object held by the caller, or NoModel
    derived,  \* the model returned by the last conversion or load, or NoModel
    call,     \* the last call: operation, arguments, outcome and result
    solver    \* the running est_chem_potential_from_affinities call

vars == <<heap, model, derived, call, solver>>

----------------------------------------------------------------------------
(* Bounds of the model.                                                    *)

MaxSeqLen == 1
MaxMotifLen == 2
ScenarioSeqLen == 10
ScenarioFiltLen == 4

----------------------------------------------------------------------------
(* Arithmetic and array helpers (numpy).                                   *)

RECURSIVE SumSeq(_)
SumSeq(s) == IF s = <<>> THEN 0 ELSE Head(s) + SumSeq(Tail(s))

RECURSIVE MaxSeq(_)
MaxSeq(s) ==
    IF Len(s) = 1 THEN s[1]
    ELSE LET m == MaxSeq(Tail(s)) IN IF s[1] >= m THEN s[1] ELSE m

Reverse(s) == [i \in 1..Len(s) |-> s[Len(s) + 1 - i]]

NRows(m) == Len(m)

NCols(m) == IF Len(m) = 0 THEN 0 ELSE Len(m[1])

FlipUD(m) == Reverse(m)

FlipLR(m) == [i \in 1..Len(m) |-> Reverse(m[i])]

SeqsUpTo(S, n) == UNION {[1..k -> S] : k \in 1..n}

Zeros(n, c) == [i \in 1..n |-> [j \in 1..c |-> 0]]

\* float32 keeps 24 significant bits: an integer below 2^24 in magnitude is
\* kept, a larger one is rounded (half to even) to a multiple of its ulp.
Float32Exact == 16777216

RECURSIVE Float32Ulp(_, _)
Float32Ulp(x, u) == IF x \div u < Float32Exact THEN u ELSE Float32Ulp(x, 2 * u)

RoundHalfEven(x, u) ==
    LET q == x \div u
        r == x % u
    IN  IF 2 * r < u THEN q * u
        ELSE IF 2 * r > u THEN (q + 1) * u
        ELSE IF q % 2 = 0 THEN q * u ELSE (q + 1) * u

Float32(x) ==
    IF x < 0 THEN 0 - RoundHalfEven(0 - x, Float32Ulp(0 - x, 1))
    ELSE RoundHalfEven(x, Float32Ulp(x, 1))

\* np.array(a, dtype='float32'): a new buffer holding the converted entries.
NpArrayFloat32(a) == [i \in 1..Len(a) |-> [j \in 1..Len(a[i]) |-> Float32(a[i][j])]]

\* Buffers.
Store(h, n, v) == [k \in (DOMAIN h) \cup {n} |-> IF k = n THEN v ELSE h[k]]

Restrict(h, names) == [k \in (DOMAIN h) \cap names |-> h[k]]

EmptyHeap == [k \in {} |-> <<>>]

NoBuf == <<"none", "none">>

----------------------------------------------------------------------------
(* Encoded sequences.                                                      *)

Bases == {"A", "C", "G", "T"}

BaseIndex(b) == CASE b = "A" -> 1 [] b = "C" -> 2 [] b = "G" -> 3 [] b = "T" -> 4

\* one_hot_encode_sequence: one row per base, the base's channel hot.
OneHotRow(b) == [c \in 1..4 |-> IF c = BaseIndex(b) THEN 1 ELSE 0]

one_hot_encode_sequence(seq) == [i \in 1..Len(seq) |-> OneHotRow(seq[i])]

\* The six structural shape channels a caller's 10-wide encoding carries.
ShapeRow == <<1, 0, 2, 0, 1, 3>>

OneHotPlusShape(seq) == [i \in 1..Len(seq) |-> OneHotRow(seq[i]) \o ShapeRow]

\* The encoding a caller hands to a model of c channels.
CodedSeq(seq, c) == IF c = 4 THEN one_hot_encode_sequence(seq) ELSE OneHotPlusShape(seq)

ShortSeqs == SeqsUpTo(Bases, MaxSeqLen)

LongSeqs ==
    {[i \in 1..ScenarioSeqLen |-> p[((i - 1) % Len(p)) + 1]] : p \in SeqsUpTo(Bases, 2)}

BaseSeqs == ShortSeqs \cup LongSeqs

----------------------------------------------------------------------------
(* The convolutional scorer.                                               *)

ScoreDirection == {"FWD", "RC", "MAX"}

\* multichannel_convolve(in1, in2, mode='valid'): the convolution of the
\* sequence with the filter over the windows where the filter fits, all
\* channels overlapping; no window when the filter is longer.
multichannel_convolve(in1, in2) ==
    LET N == NRows(in1)
        L == NRows(in2)
        C == NCols(in2)
    IN  IF L > N THEN <<>>
        ELSE [i \in 1..(N - L + 1) |->
                SumSeq([a \in 1..L |->
                    SumSeq([c \in 1..C |-> in1[i + L - a][C + 1 - c] * in2[a][c]])])]

\* np.maximum(x1, x2, out): the element-wise maximum, written into out.
NpMaximum(x1, x2) == [i \in 1..Len(x1) |-> IF x1[i] >= x2[i] THEN x1[i] ELSE x2[i]]

ScoreFWD_extra_window(coded_seq, filt) ==
    Append(multichannel_convolve(FlipLR(FlipUD(coded_seq)), filt), 0)

ScoreFWD(coded_seq, filt) == multichannel_convolve(FlipLR(FlipUD(coded_seq)), filt)

ScoreRC(coded_seq, filt) == multichannel_convolve(coded_seq, filt)

ScoreMAX_rc_only(coded_seq, filt) == ScoreRC(coded_seq, filt)

ScoreMAX(coded_seq, filt) ==
    LET fwd_scores == multichannel_convolve(FlipLR(FlipUD(coded_seq)), filt)
        rc_scores == multichannel_convolve(coded_seq, filt)
    IN  NpMaximum(fwd_scores, rc_scores)

\* The heap after score_coded_seq_with_convolutional_filter and the buffer
\* it returns: fresh buffers for the scores, MAX written into fwd_scores.
score_coded_seq_with_convolutional_filter(h, coded_seq, filt, direction) ==
    IF direction = "FWD"
    THEN [heap |-> Store(h, <<"ret", "fwd_scores">>, ScoreFWD(h[coded_seq], h[filt])),
          ret |-> <<"ret", "fwd_scores">>]
    ELSE IF direction = "RC"
    THEN [heap |-> Store(h, <<"ret", "rc_scores">>, ScoreRC(h[coded_seq], h[filt])),
          ret |-> <<"ret", "rc_scores">>]
    ELSE [heap |-> Store(h, <<"ret", "fwd_scores">>, ScoreMAX(h[coded_seq], h[filt])),
          ret |-> <<"ret", "fwd_scores">>]

----------------------------------------------------------------------------
(* Python dicts and the module namespace.                                  *)

EmptyDict == [k \in {} |-> ""]

DictSet(d, k, v) == [x \in (DOMAIN d) \cup {k} |-> IF x = k THEN v ELSE d[x]]

DictDel(d, k) == [x \in (DOMAIN d) \ {k} |-> d[x]]

\* The names bound at module level of binding_model.py.
ModuleGlobals ==
    {"math", "OrderedDict", "izip", "np", "yaml", "brentq",
     "one_hot_encode_sequence", "one_hot_encode_sequences", "OneHotCodedDNASeq",
     "logistic", "R", "T", "calc_occ",
     "multichannel_convolve", "rfftn", "irfftn", "next_good_fshape",
     "ScoreDirection", "score_coded_seq_with_convolutional_filter",
     "DNASequence", "DNASequences", "FixedLengthDNASequences",
     "DNABindingModels", "DNABindingModel", "ConvolutionalDNABindingModel",
     "PWMBindingModel", "EnergeticDNABindingModel", "load_binding_model",
     "ReducedDeltaDeltaGArray", "DeltaDeltaGArray",
     "est_chem_potential_from_affinities", "est_chem_potential"}

----------------------------------------------------------------------------
(* The binding model hierarchy.                                            *)

\* An object's fields; a field an object does not have is "None" / NoBuf.
NoModel ==
    [type |-> "None", model_type |-> "None", meta_data |-> EmptyDict,
     encoding_type |-> "None", binding_site_len |-> 0, shape |-> <<0, 0>>,
     convolutional_filter |-> NoBuf, pwm |-> NoBuf,
     ref_energy |-> 0, ddg_array |-> NoBuf]

Bufs(o) == {o.convolutional_filter, o.pwm, o.ddg_array} \ {NoBuf}

\* The buffers the caller's objects still reference.
Live(h, m, d) == Restrict(h, Bufs(m) \cup Bufs(d))

\* DNABindingModel._init_meta_data: keeps the dict and sets one attribute per
\* key (encoding_type is the key here that names a field of the object).
InitMetaData(self, meta_data) ==
    LET o == [self EXCEPT !.meta_data = meta_data]
    IN  IF "encoding_type" \in DOMAIN meta_data
        THEN [o EXCEPT !.encoding_type = meta_data["encoding_type"]]
        ELSE o

\* ConvolutionalDNABindingModel.__init__: the object keeps the array it is
\* given (no copy).
ConvolutionalInit(self, h, convolutional_filter, kwargs) ==
    LET o == InitMetaData(self, kwargs)
        c == NCols(h[convolutional_filter])
    IN  IF c \notin {4, 10}
        THEN [outcome |-> "TypeError: Unrecognized ddg_array type", obj |-> NoModel, heap |-> h]
        ELSE [outcome |-> "ok",
              obj |-> [o EXCEPT !.encoding_type = IF c = 4 THEN "ONE_HOT" ELSE "ONE_HOT_PLUS_SHAPE",
                                !.binding_site_len = NRows(h[convolutional_filter]),
                                !.convolutional_filter = convolutional_filter,
                                !.shape = <<NRows(h[convolutional_filter]), c>>],
              heap |-> h]

NewObject(type, model_type) == [NoModel EXCEPT !.type = type, !.model_type = model_type]

ConvolutionalNew(h, convolutional_filter, kwargs) ==
    ConvolutionalInit(NewObject("ConvolutionalDNABindingModel", "ConvolutionalDNABindingModel"),
                      h, convolutional_filter, kwargs)

\* In-place array arithmetic.
AddToRow(a, r, x) == [i \in 1..Len(a) |-> [j \in 1..Len(a[i]) |-> IF i = r THEN a[i][j] + x ELSE a[i][j]]]

Scale(a, x) == [i \in 1..Len(a) |-> [j \in 1..Len(a[i]) |-> a[i][j] * x]]

\* The buffer the energetic model's filter is built in: ddg_array.copy().
EnergeticFilterBuf_no_copy(slot) == <<slot, "ddg_array">>

EnergeticFilterBuf(slot) == <<slot, "convolutional_filter">>

\* EnergeticDNABindingModel.__init__(ref_energy, ddg_array, **kwargs).
EnergeticInit(slot, h, ref_energy, ddg_array, kwargs) ==
    LET ddg == <<slot, "ddg_array">>
        h1  == Store(h, ddg, NpArrayFloat32(h[ddg_array]))
        cf  == EnergeticFilterBuf(slot)
        h2  == Store(h1, cf, h1[ddg])
        h3  == Store(h2, cf, AddToRow(h2[cf], 1, ref_energy))
        h4  == Store(h3, cf, Scale(h3[cf], -1))
        o   == [NewObject("EnergeticDNABindingModel", "EnergeticDNABindingModel")
                    EXCEPT !.ref_energy = ref_energy, !.ddg_array = ddg]
    IN  ConvolutionalInit(o, h4, cf, kwargs)

\* 1.0 in the fixed point of probabilities (units of 1e-7).
ProbOne == 10000000

\* numpy's round(6) of a probability: to a multiple of 1e-6, half to even.
Round6(p) == RoundHalfEven(p, 10)

RowSums(a) == [i \in 1..Len(a) |-> SumSeq(a[i])]

Clip(x, lo, hi) == IF x < lo THEN lo ELSE IF x > hi THEN hi ELSE x

\* -log2(q) in units of 1e-3 for the probabilities q the model draws.
NegLog2Table ==
    (9999990 :> 0) @@ (9000000 :> 152) @@ (8000000 :> 322) @@ (7500000 :> 415)
    @@ (7499995 :> 415) @@ (7499992 :> 415) @@ (6000000 :> 737) @@ (5000000 :> 1000)
    @@ (4000000 :> 1322) @@ (3000000 :> 1737) @@ (10 :> 19932)

\* -np.log2(np.clip(1 - pwm, 1e-6, 1-1e-6))
PwmFilter(pwm) ==
    [i \in 1..Len(pwm) |-> [j \in 1..Len(pwm[i]) |->
        NegLog2Table[Clip(ProbOne - pwm[i][j], 10, ProbOne - 10)]]]

RowsSumToOne(a) == \A i \in 1..Len(a) : Round6(RowSums(a)[i]) = ProbOne

PwmChecks_no_shape_check(a) ==
    IF ~RowsSumToOne(a) THEN "TypeError: PWM rows must sum to one." ELSE "ok"

\* The two checks of PWMBindingModel.__init__, in the order the code makes them.
PwmChecks(a) ==
    IF ~RowsSumToOne(a) THEN "TypeError: PWM rows must sum to one."
    ELSE IF NCols(a) # 4 THEN "TypeError: PWMs must have dimension NX4."
    ELSE "ok"

\* PWMBindingModel.__init__(pwm, **kwargs).
PwmInit(slot, h, pwm, kwargs) ==
    LET p  == <<slot, "pwm">>
        h1 == Store(h, p, NpArrayFloat32(h[pwm]))
        o  == [NewObject("PWMBindingModel", "PWMbindingModel") EXCEPT !.pwm = p]
        cf == <<slot, "convolutional_filter">>
    IN  IF PwmChecks(h1[p]) # "ok"
        THEN [outcome |-> PwmChecks(h1[p]), obj |-> NoModel, heap |-> h]
        ELSE ConvolutionalInit(o, Store(h1, cf, PwmFilter(h[pwm])), cf, kwargs)

\* The buffer build_energetic_model fills with energies: a fresh np.zeros.
EnergiesBuf_in_place(self) == self.convolutional_filter

EnergiesBuf(self) == <<"tmp", "energies">>

\* PWMBindingModel.build_energetic_model(include_shape): a new energetic
\* model whose energies are the negated filter, shape channels zero.
build_energetic_model(slot, h, self, include_shape) ==
    LET f == h[self.convolutional_filter]
        width == 4 + (IF include_shape THEN 6 ELSE 0)
        energies == [i \in 1..self.binding_site_len |-> [j \in 1..width |->
                        IF j <= Len(f[i]) THEN Float32(0 - f[i][j]) ELSE 0]]
        h1 == Store(h, EnergiesBuf(self), energies)
    IN  EnergeticInit(slot, h1, 0, EnergiesBuf(self), self.meta_data)

\* misc.logistic in units of 1e-2, saturating at both ends.
LogisticTable == <<1, 2, 5, 12, 27, 50, 73, 88, 95, 98, 99>>

logistic(x) == IF x < -5 THEN 0 ELSE IF x > 5 THEN 100 ELSE LogisticTable[x + 6]

\* EnergeticDNABindingModel.mean_energy
mean_energy(h, self) ==
    self.ref_energy + (SumSeq(RowSums(h[self.ddg_array])) \div 4)

\* The body of build_pwm once its names resolve: a 4 x motif_len array whose
\* column i holds the normalised occupancies of position i.
build_pwm_body(h, self, chem_pot, ref_energy) ==
    LET ddg == h[self.ddg_array]
        me  == ref_energy + chem_pot + mean_energy(h, self)
        occs(i) == [j \in 1..Len(ddg[i]) |->
                        logistic(me + (SumSeq(ddg[i]) \div Len(ddg[i])) - ddg[i][j])]
    IN  IF \E i \in 1..Len(ddg) : Len(ddg[i]) # 4
        THEN [outcome |-> "ValueError: could not broadcast input array", result |-> <<>>]
        ELSE [outcome |-> "ok",
              result |-> [r \in 1..4 |-> [i \in 1..self.binding_site_len |->
                            IF SumSeq(occs(i)) = 0 THEN 0
                            ELSE (occs(i)[r] * ProbOne) \div SumSeq(occs(i))]]]

\* EnergeticDNABindingModel.build_pwm(chem_pot): `ref_energy` is read as a
\* bare name, which is neither a local of the method nor bound in the module.
build_pwm(h, self, chem_pot) ==
    IF "ref_energy" \notin {"self", "chem_pot", "pwm", "mean_energy", "i",
                            "base_energies", "base_mut_energies", "occs"} \cup ModuleGlobals
    THEN [outcome |-> "NameError: global name 'ref_energy' is not defined", result |-> <<>>]
    ELSE build_pwm_body(h, self, chem_pot, 0)

----------------------------------------------------------------------------
(* Persistence.                                                            *)

\* The order yaml.dump writes the keys of a mapping in (sorted).
KeyRank ==
    ("ddg_array" :> 1) @@ ("encoding_type" :> 2) @@ ("factor" :> 3)
    @@ ("model_type" :> 4) @@ ("name" :> 5) @@ ("ref_energy" :> 6)

\* OrderedDict: a sequence of <<key, value>>; assigning a present key keeps
\* its place.
OdKeys(od) == {od[i][1] : i \in 1..Len(od)}

OdSet(od, k, v) ==
    IF k \in OdKeys(od)
    THEN [i \in 1..Len(od) |-> IF od[i][1] = k THEN <<k, v>> ELSE od[i]]
    ELSE Append(od, <<k, v>>)

OdGet(od, k) == (CHOOSE i \in 1..Len(od) : od[i][1] = k)

\* dict(od): the mapping without its order.
DictOfPairs(od) == [k \in OdKeys(od) |-> od[OdGet(od, k)][2]]

RECURSIVE OdSetAll(_, _, _)
OdSetAll(od, d, order) ==
    IF order = <<>> THEN od
    ELSE OdSetAll(OdSet(od, Head(order), d[Head(order)]), d, Tail(order))

\* ndarray.round(4).tolist(): entries are whole numbers of the unit.
Round4ToList(a) == a

\* EnergeticDNABindingModel._build_repr_dict; `order` is the order the
\* meta_data dict iterates in.
build_repr_dict(h, self, order) ==
    LET rv1 == OdSet(<<>>, "model_type", self.model_type)
        rv2 == OdSetAll(rv1, self.meta_data, order)
        rv3 == OdSet(rv2, "encoding_type", self.encoding_type)
        rv4 == OdSet(rv3, "ref_energy", self.ref_energy)
    IN  OdSet(rv4, "ddg_array", Round4ToList(h[self.ddg_array]))

RECURSIVE SortKeys(_)
SortKeys(S) ==
    IF S = {} THEN <<>>
    ELSE LET m == CHOOSE k \in S : \A x \in S : KeyRank[k] <= KeyRank[x]
         IN  <<m>> \o SortKeys(S \ {m})

\* yaml.dump(d): the document, one key: value entry per key, keys sorted.
YamlDump(d) == [i \in 1..Cardinality(DOMAIN d) |-> <<SortKeys(DOMAIN d)[i], d[SortKeys(DOMAIN d)[i]]>>]

\* yaml.load: the mapping a document holds.
YamlLoad(doc) == DictOfPairs(doc)

\* EnergeticDNABindingModel.yaml_str
yaml_str(h, self, order) == YamlDump(DictOfPairs(build_repr_dict(h, self, order)))

\* load_binding_model: the class named by model_type, called with every
\* other entry of the document as a keyword argument.
load_binding_model(slot, h, doc) ==
    LET data == YamlLoad(doc)
        object_type == data["model_type"]
        kwargs == DictDel(data, "model_type")
    IN  IF object_type \notin ModuleGlobals
        THEN [outcome |-> "KeyError", obj |-> NoModel, heap |-> h]
        ELSE IF object_type # "EnergeticDNABindingModel"
        THEN [outcome |-> "TypeError: unexpected keyword argument", obj |-> NoModel, heap |-> h]
        ELSE EnergeticInit(slot, Store(h, <<"arg", "ddg_array">>, kwargs["ddg_array"]),
                           kwargs["ref_energy"], <<"arg", "ddg_array">>,
                           DictDel(DictDel(kwargs, "ref_energy"), "ddg_array"))

----------------------------------------------------------------------------
(* Delta-delta-G arrays.                                                   *)

DDGReverseComplement_drop_row(a) == FlipLR([i \in 1..(Len(a) - 1) |-> a[Len(a) + 1 - i]])

\* DeltaDeltaGArray.reverse_complement: self[::-1, ::-1]
DDGReverseComplement(a) == FlipLR(FlipUD(a))

----------------------------------------------------------------------------
(* The chemical potential solver.                                          *)
(*                                                                         *)
(* Chemical potentials and energies are integers; concentrations are       *)
(* whole numbers and the residual f is in units of 1e-2 of them.           *)

\* round(100 * e^u) for -5 <= u <= 8.
ExpTable == <<1, 2, 5, 14, 37, 100, 272, 739, 2009, 5460, 14841, 40343, 109663, 298096>>

\* math.exp(u) in units of 1e-2: underflows to 0, and is larger than every
\* concentration of the model above the table.
exp(u) == IF u < -5 THEN 0 ELSE IF u > 8 THEN 1000000000 ELSE ExpTable[u + 6]

\* round(ln(x)) for x in 1..8.
LogTable == <<0, 1, 1, 1, 2, 2, 2, 2>>

log(x) == LogTable[x]

\* misc.R * misc.T: energies are measured in units of R*T.
RT == 1

\* misc.calc_occ(chem_pot, energies): the logistic occupancy, in units of 1e-2.
calc_occ(chem_pot, energy) == logistic((chem_pot - energy) \div RT)

Sign(x) == IF x > 0 THEN 1 ELSE IF x < 0 THEN -1 ELSE 0

Abs(x) == IF x < 0 THEN 0 - x ELSE x

\* np.ones(affinities.shape, dtype=float)/len(affinities), in units of 1e-7.
UniformWeights(affinities) == [i \in 1..Len(affinities) |-> ProbOne \div Len(affinities)]

\* calc_bnd_frac: (weights*calc_occ(chem_pot, affinities)).sum(), in units of 1e-2.
calc_bnd_frac(affinities, weights, chem_pot) ==
    RoundHalfEven(SumSeq([i \in 1..Len(affinities) |->
                            weights[i] * calc_occ(chem_pot, affinities[i])]), ProbOne) \div ProbOne

\* f(u) = prot_conc - math.exp(u) - dna_conc*bnd_frac
f(affinities, dna_conc, prot_conc, u) ==
    100 * prot_conc - exp(u)
        - dna_conc * calc_bnd_frac(affinities, UniformWeights(affinities), u)

min_u == -1000

max_u(prot_conc) == 100 + log(prot_conc \div RT)

\* scipy.optimize.brentq's default iteration limit.
maxiter == 100

IdleSolver ==
    [pc |-> "idle", affinities |-> <<>>, dna_conc |-> 0, prot_conc |-> 0,
     lo |-> 0, hi |-> 0, iter |-> 0, outcome |-> "none", result |-> 0]

\* brentq on entry: the signs at the two ends decide between an error, an
\* end that is a root, and the iteration.
brentq_enter(s, a, b) ==
    LET fa == f(s.affinities, s.dna_conc, s.prot_conc, a)
        fb == f(s.affinities, s.dna_conc, s.prot_conc, b)
    IN  IF Sign(fa) * Sign(fb) > 0
        THEN [s EXCEPT !.pc = "raised",
                       !.outcome = "ValueError: f(a) and f(b) must have different signs"]
        ELSE IF fa = 0 THEN [s EXCEPT !.pc = "returned", !.outcome = "ok", !.result = a]
        ELSE IF fb = 0 THEN [s EXCEPT !.pc = "returned", !.outcome = "ok", !.result = b]
        ELSE [s EXCEPT !.pc = "running", !.lo = a, !.hi = b, !.iter = 0]

\* One iteration of brentq on the bracket [lo, hi]: the next point is the
\* bisection point or the linear interpolation, whichever the method takes.
BrentCandidates(s) ==
    LET flo == f(s.affinities, s.dna_conc, s.prot_conc, s.lo)
        fhi == f(s.affinities, s.dna_conc, s.prot_conc, s.hi)
        sec == s.lo + ((Abs(flo) * (s.hi - s.lo)) \div (Abs(flo) + Abs(fhi)))
    IN  {(s.lo + s.hi) \div 2} \cup (IF s.lo < sec /\ sec < s.hi THEN {sec} ELSE {})

brentq_step(s, c) ==
    LET flo == f(s.affinities, s.dna_conc, s.prot_conc, s.lo)
        fhi == f(s.affinities, s.dna_conc, s.prot_conc, s.hi)
        fc  == f(s.affinities, s.dna_conc, s.prot_conc, c)
    IN  IF s.hi - s.lo <= 1
        THEN [s EXCEPT !.pc = "returned", !.outcome = "ok",
                       !.result = IF Abs(flo) <= Abs(fhi) THEN s.lo ELSE s.hi]
        ELSE IF s.iter >= maxiter
        THEN [s EXCEPT !.pc = "raised", !.outcome = "RuntimeError: Failed to converge"]
        ELSE IF fc = 0
        THEN [s EXCEPT !.pc = "returned", !.outcome = "ok", !.result = c]
        ELSE IF Sign(fc) = Sign(flo)
        THEN [s EXCEPT !.lo = c, !.iter = s.iter + 1]
        ELSE [s EXCEPT !.hi = c, !.iter = s.iter + 1]

est_chem_potential_from_affinities_clamped(affinities, dna_conc, prot_conc) ==
    LET s == [IdleSolver EXCEPT !.affinities = affinities, !.dna_conc = dna_conc,
                                !.prot_conc = prot_conc]
        r == brentq_enter(s, min_u, max_u(prot_conc))
    IN  IF Round6(SumSeq(UniformWeights(affinities))) # ProbOne
        THEN [s EXCEPT !.pc = "raised", !.outcome = "AssertionError"]
        ELSE IF r.pc = "raised"
        THEN [s EXCEPT !.pc = "returned", !.outcome = "ok", !.result = min_u]
        ELSE r

\* est_chem_potential_from_affinities up to its call of brentq, whose result
\* or error is the call's own.
est_chem_potential_from_affinities(affinities, dna_conc, prot_conc) ==
    LET s == [IdleSolver EXCEPT !.affinities = affinities, !.dna_conc = dna_conc,
                                !.prot_conc = prot_conc]
    IN  IF Round6(SumSeq(UniformWeights(affinities))) # ProbOne
        THEN [s EXCEPT !.pc = "raised", !.outcome = "AssertionError"]
        ELSE brentq_enter(s, min_u, max_u(prot_conc))

----------------------------------------------------------------------------
(* Sequence containers and the sequence-level entry point.                 *)

MaxSeqs == 2

ContainerKinds == {"DNASequences", "FixedLengthDNASequences", "other"}

RECURSIVE StoreSeqs(_, _, _)
RECURSIVE score_seqs_binding_sites_heap(_, _, _, _, _)

\* ConvolutionalDNABindingModel.score_binding_sites on an encoded sequence:
\* the scores the scorer returns.
score_binding_sites(h, self, coded_seq, direction) ==
    LET h1 == Store(h, <<"arg", "coded_seq">>, coded_seq)
        r  == score_coded_seq_with_convolutional_filter(
                  h1, <<"arg", "coded_seq">>, self.convolutional_filter, direction)
    IN  r.heap[r.ret]

\* ConvolutionalDNABindingModel.score_seqs_binding_sites: a Python list with
\* one score array per encoded sequence, in iteration order.
score_seqs_binding_sites(h, self, coded_seqs, direction) ==
    [pytype |-> "list",
     data |-> [i \in 1..Len(coded_seqs) |-> score_binding_sites(h, self, coded_seqs[i], direction)]]

\* The buffers holding the encodings of a collection's sequences.
SeqBufName == <<"1", "2", "3", "4">>

SeqBuf(i) == <<"seqs", SeqBufName[i]>>

StoreSeqs(h, coded_seqs, i) ==
    IF i > Len(coded_seqs) THEN h
    ELSE StoreSeqs(Store(h, SeqBuf(i), coded_seqs[i]), coded_seqs, i + 1)

\* The heap after the loop of score_seqs_binding_sites over the encodings
\* held in buffers i.. of the collection.
score_seqs_binding_sites_heap(h, self, n, direction, i) ==
    IF i > n THEN h
    ELSE score_seqs_binding_sites_heap(
             score_coded_seq_with_convolutional_filter(
                 h, SeqBuf(i), self.convolutional_filter, direction).heap,
             self, n, direction, i + 1)

\* np.array(list of score arrays)
NpArrayOfList(x) == [pytype |-> "ndarray", data |-> x.data]

\* iter_one_hot_coded_seqs of a container of base sequences.
iter_one_hot_coded_seqs(seqs) == [i \in 1..Len(seqs) |-> one_hot_encode_sequence(seqs[i])]

\* DNASequences.score_binding_sites, and FixedLengthDNASequences' override,
\* which (freq_one_hot_coded_seqs being None) wraps the list in an array.
container_score_binding_sites(h, kind, seqs, binding_model, direction) ==
    IF kind = "FixedLengthDNASequences"
    THEN NpArrayOfList(score_seqs_binding_sites(h, binding_model, iter_one_hot_coded_seqs(seqs), direction))
    ELSE score_seqs_binding_sites(h, binding_model, iter_one_hot_coded_seqs(seqs), direction)

\* -(x.max(1)): defined on a rectangular array with at least one column.
NegMax1(x) ==
    IF x.pytype = "list"
    THEN [outcome |-> "AttributeError: 'list' object has no attribute 'max'", value |-> <<>>]
    ELSE IF Len(x.data) = 0 \/ \E i \in 1..Len(x.data) : Len(x.data[i]) # Len(x.data[1])
    THEN [outcome |-> "ValueError: axis out of bounds", value |-> <<>>]
    ELSE IF Len(x.data[1]) = 0
    THEN [outcome |-> "ValueError: zero-size array to reduction operation", value |-> <<>>]
    ELSE [outcome |-> "ok", value |-> [i \in 1..Len(x.data) |-> 0 - MaxSeq(x.data[i])]]

\* est_chem_potential(seqs, binding_model, dna_conc, prot_conc)
est_chem_potential(h, kind, seqs, binding_model, dna_conc, prot_conc) ==
    LET scores == IF kind \in {"DNASequences", "FixedLengthDNASequences"}
                  THEN container_score_binding_sites(h, kind, seqs, binding_model, "MAX")
                  ELSE NpArrayOfList(score_seqs_binding_sites(
                           h, binding_model, iter_one_hot_coded_seqs(seqs), "MAX"))
        affinities == NegMax1(scores)
    IN  IF affinities.outcome # "ok"
        THEN [IdleSolver EXCEPT !.pc = "raised", !.outcome = affinities.outcome]
        ELSE est_chem_potential_from_affinities(affinities.value, dna_conc, prot_conc)

----------------------------------------------------------------------------
(* The inputs the callers draw.                                            *)

MaxConc == 2

MetaChoices == {EmptyDict, ("name" :> "CTCF") @@ ("factor" :> "T011")}

ConvFilters ==
    {<<<<0, 0, 0, 0>>>>, <<<<1, -1, 0, 2>>>>,
     <<<<1, -1, 0, 2>>, <<0, 0, 0, 0>>>>, <<<<1, -1, 0, 2>>, <<1, -1, 0, 2>>>>,
     Zeros(ScenarioFiltLen, 4)}

DdgRows4 == {<<0, 1, 2, 3>>, <<2, 0, 1, 0>>}

DdgRows10 == {<<0, 1, 2, 3, 1, 0, 0, 2, 0, 1>>}

DdgRows3 == {<<1, 2, 3>>}

DdgArrays ==
    SeqsUpTo(DdgRows4, MaxMotifLen) \cup SeqsUpTo(DdgRows10, MaxMotifLen)
        \cup SeqsUpTo(DdgRows3, 1)

RefEnergies == {0, 3}

\* Probability rows in units of 1e-7: rows summing to 1, to 1 + 5e-7, to
\* 1 + 8e-7 and to 0.9, and rows of two columns summing to 1 and to 0.9.
PwmRows4 ==
    {<<7000000, 1000000, 1000000, 1000000>>,
     <<2500000, 2500000, 2500000, 2500005>>, <<2500000, 2500000, 2500000, 2500008>>,
     <<6000000, 1000000, 1000000, 1000000>>}

PwmRows2 == {<<5000000, 5000000>>, <<5000000, 4000000>>}

PwmArrays == SeqsUpTo(PwmRows4, MaxMotifLen) \cup SeqsUpTo(PwmRows2, MaxMotifLen)

ChemPots == {-1, 0, 2}

\* Collections of sequences: empty, of one length, and of mixed lengths.
Containers ==
    {<<>>, <<<<"A", "C", "G">>>>, <<<<"A", "C", "G">>, <<"T", "T", "A">>>>,
     <<<<"G">>>>, <<<<"G">>, <<"G">>>>, <<<<"A", "C", "G">>, <<"G">>>>}

Concentrations == 1..MaxConc

AffinityValues == {-1010, 2}

AffinityArrays == {<<>>} \cup SeqsUpTo(AffinityValues, MaxSeqs)

----------------------------------------------------------------------------
(* The state machine.                                                      *)

NoCall == [op |-> "none", arg |-> <<>>, outcome |-> "ok", result |-> <<>>]

Init ==
    /\ heap = EmptyHeap
    /\ model = NoModel
    /\ derived = NoModel
    /\ call = NoCall
    /\ solver = IdleSolver

\* No solver call is in progress: the program is single-threaded.
Idle == solver.pc # "running"

\* The caller is between calls.
Ready == Idle /\ call.op = "none"

\* The caller is done with the result of its last call.
Return ==
    /\ Idle
    /\ call.op # "none"
    /\ call' = NoCall
    /\ solver' = IdleSolver
    /\ heap' = Live(heap, model, derived)
    /\ UNCHANGED <<model, derived>>

\* The caller binds the object a constructor returns, and keeps what it had
\* when the constructor raises.
Constructed(r) ==
    IF r.outcome = "ok"
    THEN /\ model' = r.obj
         /\ derived' = NoModel
         /\ heap' = Live(r.heap, r.obj, NoModel)
    ELSE /\ model' = model
         /\ derived' = derived
         /\ heap' = Live(heap, model, derived)

ConstructConvolutional ==
    \E filt \in ConvFilters :
        LET r == ConvolutionalNew(Store(EmptyHeap, <<"arg", "filter">>, filt),
                                  <<"arg", "filter">>, EmptyDict)
        IN  /\ Ready
            /\ Constructed(r)
            /\ call' = [op |-> "ConvolutionalDNABindingModel", arg |-> [filter |-> filt],
                        outcome |-> r.outcome, result |-> r.obj]
            /\ solver' = IdleSolver

ConstructPWM ==
    \E pwm \in PwmArrays, kwargs \in MetaChoices :
        LET r == PwmInit("m", Store(EmptyHeap, <<"arg", "pwm">>, pwm), <<"arg", "pwm">>, kwargs)
        IN  /\ Ready
            /\ Constructed(r)
            /\ call' = [op |-> "PWMBindingModel", arg |-> [pwm |-> pwm, kwargs |-> kwargs],
                        outcome |-> r.outcome, result |-> r.obj]
            /\ solver' = IdleSolver

ConstructEnergetic ==
    \E ref_energy \in RefEnergies, ddg_array \in DdgArrays, kwargs \in MetaChoices :
        LET r == EnergeticInit("m", Store(EmptyHeap, <<"arg", "ddg_array">>, ddg_array),
                               ref_energy, <<"arg", "ddg_array">>, kwargs)
        IN  /\ Ready
            /\ Constructed(r)
            /\ call' = [op |-> "EnergeticDNABindingModel",
                        arg |-> [ref_energy |-> ref_energy, ddg_array |-> ddg_array,
                                 kwargs |-> kwargs],
                        outcome |-> r.outcome, result |-> r.obj]
            /\ solver' = IdleSolver

BuildEnergeticModel ==
    \E include_shape \in BOOLEAN :
        LET h == Live(heap, model, NoModel)
            r == build_energetic_model("d", h, model, include_shape)
        IN  /\ Ready
            /\ model.type = "PWMBindingModel"
            /\ model' = model
            /\ derived' = r.obj
            /\ heap' = Live(r.heap, model, r.obj)
            /\ call' = [op |-> "build_energetic_model", arg |-> [include_shape |-> include_shape],
                        outcome |-> r.outcome, result |-> r.obj]
            /\ solver' = IdleSolver

\* EnergeticDNABindingModel(ref_energy, m.ddg_array, **m.meta_data) on the
\* ddg_array of the energetic model m the caller holds.
ConstructEnergeticFromModel ==
    \E ref_energy \in RefEnergies :
        LET h == Live(heap, model, NoModel)
            r == EnergeticInit("d", h, ref_energy, model.ddg_array, model.meta_data)
        IN  /\ Ready
            /\ model.type = "EnergeticDNABindingModel"
            /\ model' = model
            /\ derived' = r.obj
            /\ heap' = Live(r.heap, model, r.obj)
            /\ call' = [op |-> "EnergeticDNABindingModel_of_model",
                        arg |-> [ref_energy |-> ref_energy], outcome |-> r.outcome,
                        result |-> r.obj]
            /\ solver' = IdleSolver

\* The energetic model the caller holds: the converted one when there is one.
Energetic == IF derived.type = "EnergeticDNABindingModel" THEN derived ELSE model

BuildPwm ==
    \E chem_pot \in ChemPots :
        LET h == Live(heap, model, derived)
            r == build_pwm(h, Energetic, chem_pot)
        IN  /\ Ready
            /\ Energetic.type = "EnergeticDNABindingModel"
            /\ UNCHANGED <<model, derived>>
            /\ heap' = h
            /\ call' = [op |-> "build_pwm",
                        arg |-> [chem_pot |-> chem_pot, motif_len |-> Energetic.binding_site_len,
                                 from_pwm |-> derived.type = "EnergeticDNABindingModel"
                                              /\ model.type = "PWMBindingModel"],
                        outcome |-> r.outcome, result |-> r.result]
            /\ solver' = IdleSolver

Perms(S) == {p \in [1..Cardinality(S) -> S] : \A i, j \in 1..Cardinality(S) : p[i] = p[j] => i = j}

\* model.save(ofstream) followed by load_binding_model(fname).
SaveLoad ==
    \E order \in Perms(DOMAIN Energetic.meta_data) :
        LET h == Live(heap, model, derived)
            doc == yaml_str(h, Energetic, order)
            r == load_binding_model("d", h, doc)
        IN  /\ Ready
            /\ Energetic.type = "EnergeticDNABindingModel"
            /\ model' = model
            /\ derived' = r.obj
            /\ heap' = Live(r.heap, model, r.obj)
            /\ call' = [op |-> "save_load",
                        arg |-> [meta_data |-> Energetic.meta_data, order |-> order, doc |-> doc],
                        outcome |-> r.outcome, result |-> r.obj]
            /\ solver' = IdleSolver

MaxReverseComplements == 2

ReverseComplement ==
    /\ Ready
    /\ Energetic.type = "EnergeticDNABindingModel"
    /\ UNCHANGED <<model, derived>>
    /\ heap' = Live(heap, model, derived)
    /\ call' = [op |-> "reverse_complement",
                arg |-> [array |-> heap[Energetic.ddg_array], times |-> 1],
                outcome |-> "ok",
                result |-> DDGReverseComplement(heap[Energetic.ddg_array])]
    /\ solver' = IdleSolver

\* reverse_complement of the array the last reverse_complement returned.
ReverseComplementAgain ==
    /\ Idle
    /\ call.op = "reverse_complement"
    /\ call.arg.times < MaxReverseComplements
    /\ UNCHANGED <<model, derived, heap, solver>>
    /\ call' = [call EXCEPT !.arg.times = @ + 1, !.result = DDGReverseComplement(@)]

ScoreBindingSites ==
    \E seq \in BaseSeqs, direction \in ScoreDirection :
        LET h  == Store(Live(heap, model, derived), <<"arg", "coded_seq">>,
                        CodedSeq(seq, model.shape[2]))
            r  == score_coded_seq_with_convolutional_filter(
                      h, <<"arg", "coded_seq">>, model.convolutional_filter, direction)
        IN  /\ Ready
            /\ model.type # "None"
            /\ UNCHANGED <<model, derived>>
            /\ heap' = r.heap
            /\ call' = [op |-> "score_binding_sites",
                        arg |-> [seq |-> seq, coded_seq |-> CodedSeq(seq, model.shape[2]),
                                 filter |-> heap[model.convolutional_filter],
                                 direction |-> direction],
                        outcome |-> "ok", result |-> r.heap[r.ret]]
            /\ solver' = IdleSolver

\* DNASequences.__init__(seqs): one DNASequence per given string, and per
\* sequence one entry of _seq_lens, appended as len(seqs).
DNASequencesInit(seqs) ==
    [outcome |-> "ok", _seqs |-> seqs, _seq_lens |-> [i \in 1..Len(seqs) |-> Len(seqs)]]

\* FixedLengthDNASequences.__init__(seqs): the lengths of the sequences,
\* which must all be equal (max() of no length is an error).
FixedLengthDNASequencesInit(seqs) ==
    LET lens == [i \in 1..Len(seqs) |-> Len(seqs[i])]
    IN  IF Len(seqs) = 0
        THEN [outcome |-> "ValueError: zero-size array to reduction operation",
              _seqs |-> <<>>, _seq_lens |-> <<>>]
        ELSE IF \E i \in 1..Len(seqs) : lens[i] # lens[1]
        THEN [outcome |-> "AssertionError", _seqs |-> <<>>, _seq_lens |-> <<>>]
        ELSE [outcome |-> "ok", _seqs |-> seqs, _seq_lens |-> lens]

\* The seq_lens property.
seq_lens(self) == self._seq_lens

\* Construction of a collection of sequences of either class.
ConstructSequences ==
    \E kind \in {"DNASequences", "FixedLengthDNASequences"}, seqs \in Containers :
        LET r == IF kind = "DNASequences" THEN DNASequencesInit(seqs)
                 ELSE FixedLengthDNASequencesInit(seqs)
        IN  /\ Ready
            /\ UNCHANGED <<model, derived>>
            /\ heap' = Live(heap, model, derived)
            /\ call' = [op |-> "construct_sequences", arg |-> [kind |-> kind, seqs |-> seqs],
                        outcome |-> r.outcome, result |-> r]
            /\ solver' = IdleSolver

\* score_seqs_binding_sites over a collection of one-hot encoded sequences.
ScoreSeqsBindingSites ==
    \E seqs \in Containers, direction \in ScoreDirection :
        LET coded == iter_one_hot_coded_seqs(seqs)
            h == StoreSeqs(Live(heap, model, derived), coded, 1)
        IN  /\ Ready
            /\ model.type # "None"
            /\ model.encoding_type = "ONE_HOT"
            /\ UNCHANGED <<model, derived>>
            /\ heap' = score_seqs_binding_sites_heap(h, model, Len(seqs), direction, 1)
            /\ call' = [op |-> "score_seqs_binding_sites",
                        arg |-> [seqs |-> seqs, coded_seqs |-> coded, direction |-> direction],
                        outcome |-> "ok",
                        result |-> score_seqs_binding_sites(h, model, coded, direction).data]
            /\ solver' = IdleSolver

EqualLengths(seqs) == \A i, j \in 1..Len(seqs) : Len(seqs[i]) = Len(seqs[j])

Outcome(s) == IF s.pc = "running" THEN "running" ELSE s.outcome

\* What the call hands back: the chemical potential brentq returned, if any.
Returned(s) == IF s.pc = "returned" THEN [chem_pot |-> s.result] ELSE <<>>

EstChemPotential ==
    \E kind \in ContainerKinds, seqs \in Containers,
       dna_conc \in Concentrations, prot_conc \in Concentrations :
        LET h == Live(heap, model, derived)
            s == est_chem_potential(h, kind, seqs, model, dna_conc, prot_conc)
        IN  /\ Ready
            /\ model.type # "None"
            /\ model.encoding_type = "ONE_HOT"
            /\ kind = "FixedLengthDNASequences" => EqualLengths(seqs)
            /\ UNCHANGED <<model, derived>>
            /\ heap' = h
            /\ solver' = s
            /\ call' = [op |-> "est_chem_potential",
                        arg |-> [kind |-> kind, seqs |-> seqs, dna_conc |-> dna_conc,
                                 prot_conc |-> prot_conc,
                                 filter |-> heap[model.convolutional_filter]],
                        outcome |-> Outcome(s), result |-> Returned(s)]

EstChemPotentialFromAffinities ==
    \E affinities \in AffinityArrays,
       dna_conc \in Concentrations, prot_conc \in Concentrations :
        LET s == est_chem_potential_from_affinities(affinities, dna_conc, prot_conc)
        IN  /\ Ready
            /\ UNCHANGED <<model, derived>>
            /\ heap' = Live(heap, model, derived)
            /\ solver' = s
            /\ call' = [op |-> "est_chem_potential_from_affinities",
                        arg |-> [affinities |-> affinities, dna_conc |-> dna_conc,
                                 prot_conc |-> prot_conc],
                        outcome |-> Outcome(s), result |-> Returned(s)]

\* One iteration of the running brentq; its return or error ends the call.
BrentStep ==
    /\ solver.pc = "running"
    /\ \E c \in BrentCandidates(solver) :
            /\ solver' = brentq_step(solver, c)
            /\ call' = [call EXCEPT !.outcome = Outcome(solver'), !.result = Returned(solver')]
    /\ UNCHANGED <<heap, model, derived>>

Next ==
    \/ ConstructConvolutional
    \/ ConstructPWM
    \/ ConstructEnergetic
    \/ BuildEnergeticModel
    \/ BuildPwm
    \/ SaveLoad
    \/ ReverseComplement
    \/ ReverseComplementAgain
    \/ ScoreBindingSites
    \/ ScoreSeqsBindingSites
    \/ ConstructEnergeticFromModel
    \/ ConstructSequences
    \/ Return

Spec == Init /\ [][Next]_vars

\* Calibration: a convolutional model, the two entry points of the solver
\* and its iterations, which run to the end once started.
CalibrationNext ==
    \/ ConstructConvolutional
    \/ EstChemPotential
    \/ EstChemPotentialFromAffinities
    \/ BrentStep
    \/ Return

CalibrationSpec == Init /\ [][CalibrationNext]_vars /\ WF_solver(BrentStep)

----------------------------------------------------------------------------
(* The properties.                                                         *)

Max2(a, b) == IF a >= b THEN a ELSE b

IsScore == call.op = "score_binding_sites"

\* C1: the scores of a MAX call are, at every position, the larger of the
\* scores the FWD call and the RC call return for the same encoded sequence
\* and filter.
C1_DirectionSymmetry ==
    (IsScore /\ call.arg.direction = "MAX") =>
        LET fwd == score_binding_sites(heap, model, call.arg.coded_seq, "FWD")
            rc  == score_binding_sites(heap, model, call.arg.coded_seq, "RC")
        IN  /\ Len(call.result) = Len(fwd)
            /\ Len(call.result) = Len(rc)
            /\ \A i \in 1..Len(call.result) : call.result[i] = Max2(fwd[i], rc[i])

\* A MAX call where FWD wins at one position and RC at another.
C1_Witness ==
    /\ IsScore
    /\ call.arg.direction = "MAX"
    /\ LET fwd == score_binding_sites(heap, model, call.arg.coded_seq, "FWD")
           rc  == score_binding_sites(heap, model, call.arg.coded_seq, "RC")
       IN  \E i, j \in 1..Len(call.result) : fwd[i] > rc[i] /\ rc[j] > fwd[j]

IsPwmCall == call.op = "PWMBindingModel"

RowsWithin(a, tol) == \A i \in 1..Len(a) : Abs(SumSeq(a[i]) - ProbOne) <= tol

\* What C3 says of a construction whose rows must sum to 1.0 within `tol`
\* (in units of 1e-7).
PwmConstructionContract(tol) ==
    IsPwmCall =>
        LET a == call.arg.pwm
        IN  /\ call.outcome = "ok" <=> (RowsWithin(a, tol) /\ NCols(a) = 4)
            /\ (\E i \in 1..Len(a) : SumSeq(a[i]) = 9000000)
                    => call.outcome = "TypeError: PWM rows must sum to one."
            /\ (RowsWithin(a, tol) /\ NCols(a) # 4)
                    => call.outcome = "TypeError: PWMs must have dimension NX4."
            /\ call.outcome # "ok" => call.result = NoModel

C4_AsStated ==
    (call.op = "build_pwm" /\ call.arg.from_pwm) =>
        /\ call.outcome = "ok"
        /\ Len(call.result) = call.arg.motif_len
        /\ \A i \in 1..Len(call.result) :
                Len(call.result[i]) = 4 /\ Abs(SumSeq(call.result[i]) - ProbOne) <= 10

IsEnergeticCall == call.op = "EnergeticDNABindingModel" /\ call.outcome = "ok"

C8_ReverseComplementInvolution ==
    (call.op = "reverse_complement" /\ call.arg.times % 2 = 0) =>
        call.result = call.arg.array

\* Two applications to an array of 10 channels that one application changes.
C8_Witness ==
    /\ call.op = "reverse_complement"
    /\ call.arg.times = 2
    /\ NCols(call.arg.array) = 10
    /\ Len(call.arg.array) >= 2
    /\ FlipUD(call.arg.array) # call.arg.array
    /\ call.result = call.arg.array

\* C9 as stated: the model loaded back holds exactly the metadata keys and
\* values the saved model held.
C9_AsStated ==
    call.op = "save_load" =>
        /\ call.outcome = "ok"
        /\ DOMAIN call.result.meta_data = DOMAIN call.arg.meta_data
        /\ \A k \in DOMAIN call.arg.meta_data :
               call.result.meta_data[k] = call.arg.meta_data[k]

\* The affinities C10 expects: per sequence, in order, the negated maximum
\* of its MAX scores.
ExpectedAffinities(seqs) ==
    [i \in 1..Len(seqs) |->
        0 - MaxSeq(score_binding_sites(heap, model, one_hot_encode_sequence(seqs[i]), "MAX"))]

\* C10 as stated: for each kind of collection (not empty, of sequences of
\* one length, each at least as long as the filter) est_chem_potential
\* hands exactly the expected affinities, and the two concentrations, to
\* est_chem_potential_from_affinities.
C10_AsStated ==
    (/\ call.op = "est_chem_potential"
     /\ Len(call.arg.seqs) > 0
     /\ EqualLengths(call.arg.seqs)
     /\ Len(call.arg.seqs[1]) >= Len(call.arg.filter)) =>
        /\ solver.affinities = ExpectedAffinities(call.arg.seqs)
        /\ solver.dna_conc = call.arg.dna_conc
        /\ solver.prot_conc = call.arg.prot_conc

SignChange(s) ==
    Sign(f(s.affinities, s.dna_conc, s.prot_conc, min_u))
        * Sign(f(s.affinities, s.dna_conc, s.prot_conc, max_u(s.prot_conc))) <= 0

InSolverCall == call.op \in {"est_chem_potential", "est_chem_potential_from_affinities"}

C6_Safe ==
    IF InSolverCall /\ Len(solver.affinities) > 0
    THEN /\ solver.pc = "returned" =>
                /\ SignChange(solver)
                /\ min_u <= solver.result
                /\ solver.result <= max_u(solver.prot_conc)
                /\ call.outcome = "ok"
                /\ call.result = [chem_pot |-> solver.result]
         /\ ~SignChange(solver) =>
                /\ solver.pc = "raised"
                /\ call.outcome = "ValueError: f(a) and f(b) must have different signs"
         /\ solver.pc = "raised" => call.outcome = solver.outcome /\ call.outcome # "ok"
    ELSE TRUE

\* C6: a call of est_chem_potential_from_affinities ends; it returns a value
\* only when f does not have the same sign at both ends of the bracket, and
\* the value lies in the bracket; with the same sign at both ends it raises
\* the solver's error, which reaches the caller.
C6_BracketOrError ==
    /\ []C6_Safe
    /\ (solver.pc = "running") ~> (solver.pc # "running")

\* A call whose residual has the same sign at both ends has raised.
C6_Witness ==
    /\ InSolverCall
    /\ Len(solver.affinities) > 0
    /\ ~SignChange(solver)
    /\ solver.pc = "raised"
    /\ call.outcome = "ValueError: f(a) and f(b) must have different signs"

ScoringOps == {"score_binding_sites", "score_seqs_binding_sites"}

ConversionOps == {"build_energetic_model", "EnergeticDNABindingModel_of_model"}

\* The arrays of object o hold after the step what they held before it.
SameArrays(o) == \A b \in Bufs(o) : b \in DOMAIN heap' /\ heap'[b] = heap[b]

\* The encodings handed to a scoring call hold after it what was passed.
SameEncodings ==
    /\ call'.op = "score_binding_sites" =>
           heap'[<<"arg", "coded_seq">>] = call'.arg.coded_seq
    /\ call'.op = "score_seqs_binding_sites" =>
           \A i \in 1..Len(call'.arg.coded_seqs) :
               heap'[SeqBuf(i)] = call'.arg.coded_seqs[i]

C11_Step ==
    (call.op = "none" /\ call'.op \in ScoringOps \cup ConversionOps) =>
        /\ model' = model
        /\ SameArrays(model)
        /\ call'.op \in ScoringOps =>
               /\ derived' = derived
               /\ SameArrays(derived)
               /\ SameEncodings
        /\ (call'.op \in ConversionOps /\ call'.outcome = "ok") =>
               /\ call'.result = derived'
               /\ derived'.type = "EnergeticDNABindingModel"
               /\ Bufs(derived') \cap Bufs(model) = {}

\* C11: a scoring call (one sequence or a collection, any direction) and a
\* conversion call (build_energetic_model, EnergeticDNABindingModel built on
\* a model's ddg_array) leave the filter, pwm and ddg_array of every model
\* that existed before the call, and the encoding of every sequence passed,
\* as they were; a conversion returns a new object with arrays of its own.
C11_NoMutation == [][C11_Step]_vars

\* A MAX scoring call made while a converted model exists next to the PWM
\* model it was built from.
C11_Witness ==
    /\ call.op = "score_binding_sites"
    /\ call.arg.direction = "MAX"
    /\ Len(call.result) >= 2
    /\ model.type = "PWMBindingModel"
    /\ derived.type = "EnergeticDNABindingModel"
    /\ Bufs(derived) \cap Bufs(model) = {}
    /\ heap[<<"arg", "coded_seq">>] = call.arg.coded_seq

\* C12 as stated: a constructed collection of either class has one seq_lens
\* entry per stored sequence, and entry i is the number of bases of the i-th
\* stored sequence.
C12_AsStated ==
    (call.op = "construct_sequences" /\ call.outcome = "ok") =>
        LET lens == seq_lens(call.result)
            seqs == call.result._seqs
        IN  /\ seqs = call.arg.seqs
            /\ Len(lens) = Len(seqs)
            /\ \A i \in 1..Len(seqs) : lens[i] = Len(seqs[i])

====
